---- MODULE Spec2Model ----
(***************************************************************************)
(* Event-Ticket-Booking: the scheduling core (manager.py Scheduler and     *)
(* EventManager), the persisted events and schedule tables (database.py)   *)
(* and the request handlers that drive them (main.py).                     *)
(*                                                                         *)
(* Time is counted in whole hours.  A datetime is an integer number of     *)
(* hours, a POSIX timestamp is that number times 3600, an ISO date string  *)
(* is the pair <<"iso", hours>>.  Optional request fields are <<>> (None)  *)
(* or <<value>>.  Dates are naive local datetimes outside any DST change.  *)
(***************************************************************************)
EXTENDS Integers, Sequences, FiniteSets, TLC

\* ------------------------------------------------------------------ bounds
MaxTime == 3
MaxDuration == 2

\* event ids in their string order; Spec uses the first two, SpecThree all
IdSeq == <<"A", "B", "C">>
\* worker threads of the server's thread pool that are handling requests
Threads == {1, 2}
Ids == {"A", "B"}
ThreeIds == {IdSeq[k] : k \in 1..Len(IdSeq)}
Dates == 0..MaxTime
Durations == 0..MaxDuration
Nows == 0..(MaxTime + 1)
Capacities == {0, 1}
Roles == {"organizer", "attendee"}

None == <<>>
Some(x) == <<x>>
BadDate == <<"bad">>

VARIABLES
    events,       \* db table events: id -> [date, capacity, duration_hours]
    schedule,     \* db table schedule: event_id -> <<start_ts, end_ts>>
    intervals,    \* Scheduler.intervals: set of [begin, end, data]
    event_queue,  \* Scheduler.event_queue: heap of <<date, id>>
    resp,         \* the response of the last request
    pruned,       \* queue entries get_next_event popped in this process
    hwm,          \* the latest clock value a get_next_event call has seen
    event_attendees,  \* db table event_attendees: set of <<event_id, attendee_id>>
    task          \* the request each worker thread is handling, and where it is

vars == <<events, schedule, intervals, event_queue, resp, pruned, hwm,
          event_attendees, task>>

\* ------------------------------------------------------- conversions
\* datetime.isoformat() (database.py:72, manager.py:68)
Isoformat(d) == <<"iso", d>>

\* utils.parse_date on a string that parses
ParseDate(s) == s[2]

\* utils.parse_date raises HTTPException(400) on any other string
DateParses(s) == Len(s) = 2 /\ s[1] = "iso"

\* datetime.timestamp()
Timestamp(d) == d * 3600

\* mutant: the timestamp is read in another time zone (utcfromtimestamp)
FromTimestampOtherZone(ts) == ts \div 3600 + 1

\* datetime.fromtimestamp()
FromTimestamp(ts) == ts \div 3600

\* Python truthiness of an optional number: None and 0 are false
Truthy(opt) == opt # None /\ opt[1] # 0

\* ------------------------------------------------------- interval index
Interval(b, e, d) == [begin |-> b, end |-> e, data |-> d]

\* Interval.is_null
IsNull(b, e) == b >= e

\* mutant: the end of an interval counts as inside it (closed intervals)
SearchPointClosed(tree, p) == {iv \in tree : iv.begin <= p /\ p <= iv.end}

\* IntervalTree.overlaps_point / Node.search_point
SearchPoint(tree, p) == {iv \in tree : iv.begin <= p /\ p < iv.end}

OverlapsPoint(tree, p) == SearchPoint(tree, p) # {}

\* IntervalTree.boundary_table: every begin and every end
BoundaryTable(tree) == {iv.begin : iv \in tree} \cup {iv.end : iv \in tree}

\* mutant: only the start instant of the new interval is tested
OverlapsRangeStartOnly(tree, b, e) == OverlapsPoint(tree, b)

\* IntervalTree.overlaps(begin, end) -> overlaps_range
OverlapsRange(tree, b, e) ==
    IF tree = {} THEN FALSE
    ELSE IF b >= e THEN FALSE
    ELSE IF OverlapsPoint(tree, b) THEN TRUE
    ELSE \E bound \in BoundaryTable(tree) :
            b < bound /\ bound < e /\ OverlapsPoint(tree, bound)

\* mutant: the slice returns every stored interval
OverlapAll(tree, b, e) == tree

\* IntervalTree[begin:end] -> overlap(begin, end)
Overlap(tree, b, e) ==
    IF tree = {} THEN {}
    ELSE IF b >= e THEN {}
    ELSE SearchPoint(tree, b) \cup
         UNION {SearchPoint(tree, bound) :
                    bound \in {x \in BoundaryTable(tree) : b <= x /\ x < e}}

\* ------------------------------------------------------- lookahead queue
\* The heap is held in sorted order, which satisfies the heap invariant;
\* the code reads only event_queue[0], its emptiness and its entries.
IdRank(i) == CHOOSE k \in 1..Len(IdSeq) : IdSeq[k] = i

\* tuple comparison (datetime, str)
EntryLess(a, b) == a[1] < b[1] \/ (a[1] = b[1] /\ IdRank(a[2]) < IdRank(b[2]))

\* heapq.heappush
HeapPush(q, e) ==
    LET k == Cardinality({i \in 1..Len(q) : ~EntryLess(e, q[i])})
    IN  SubSeq(q, 1, k) \o <<e>> \o SubSeq(q, k + 1, Len(q))

\* heapq.heappop (the popped entry is q[1])
HeapPop(q) == Tail(q)

\* heapq.heapify
RECURSIVE Heapify(_)
Heapify(q) == IF q = <<>> THEN <<>> ELSE HeapPush(Heapify(Tail(q)), Head(q))

QueueEntries(q) == {q[i] : i \in 1..Len(q)}

\* ------------------------------------------------------- Scheduler
Sched == [intervals |-> intervals, event_queue |-> event_queue, schedule |-> schedule]

\* Database.add_schedule: INSERT OR IGNORE on the primary key event_id
AddSchedule(rows, id, start_ts, end_ts) ==
    IF id \in DOMAIN rows THEN rows
    ELSE [i \in DOMAIN rows \cup {id} |-> IF i = id THEN <<start_ts, end_ts>> ELSE rows[i]]

\* mutant: the row is not deleted
RemoveScheduleKeep(rows, id) == rows

\* Database.remove_schedule
RemoveSchedule(rows, id) == [i \in DOMAIN rows \ {id} |-> rows[i]]

\* mutant: the interval and the queue entry are inserted before the overlap
\* test, so a rejected call leaves them behind
ScheduleOutcomesInsertFirst(st, evs, id, date, duration_hours) ==
    LET start_ts == Timestamp(date)
        end_ts == Timestamp(date + duration_hours)
        overlapping == Overlap(st.intervals, start_ts, end_ts)
        put == [intervals |-> st.intervals \cup {Interval(start_ts, end_ts, id)},
                event_queue |-> HeapPush(st.event_queue, <<date, id>>),
                schedule |-> st.schedule]
    IN  IF IsNull(start_ts, end_ts)
        THEN {[st |-> st, err |-> "NullInterval", who |-> None]}
        ELSE IF overlapping # {}
        THEN {[st |-> put, err |-> "Conflict", who |-> Some(iv.data)] : iv \in overlapping}
        ELSE {[st |-> [put EXCEPT !.schedule = AddSchedule(st.schedule, id, start_ts, end_ts)],
               err |-> "", who |-> None]}

\* Scheduler.schedule_event(event): every outcome the call can have.
\* err is "" on success, else the exception; who names the conflicting id.
ScheduleOutcomes(st, evs, id, date, duration_hours) ==
    LET start_ts == Timestamp(date)
        end_ts == Timestamp(date + duration_hours)
        overlapping == Overlap(st.intervals, start_ts, end_ts)
    IN  IF OverlapsRange(st.intervals, start_ts, end_ts)
        THEN IF overlapping = {}
             THEN {[st |-> st, err |-> "StopIteration", who |-> None]}
             ELSE {[st |-> st,
                    err |-> IF iv.data \in DOMAIN evs THEN "Conflict" ELSE "TypeError",
                    who |-> Some(iv.data)] : iv \in overlapping}
        ELSE IF IsNull(start_ts, end_ts)
        THEN {[st |-> st, err |-> "NullInterval", who |-> None]}
        ELSE {[st |-> [intervals |-> st.intervals \cup {Interval(start_ts, end_ts, id)},
                       event_queue |-> HeapPush(st.event_queue, <<date, id>>),
                       schedule |-> AddSchedule(st.schedule, id, start_ts, end_ts)],
               err |-> "", who |-> None]}

\* Scheduler.__init__ / load_schedule
RECURSIVE LoadQueue(_, _)
LoadQueue(rows, todo) ==
    IF todo = {} THEN <<>>
    ELSE LET id == CHOOSE i \in todo : TRUE
         IN  HeapPush(LoadQueue(rows, todo \ {id}), <<FromTimestamp(rows[id][1]), id>>)

\* mutant: a row that overlaps another row is not loaded
LoadScheduleChecked(rows) ==
    LET ok == {id \in DOMAIN rows :
                  \A other \in DOMAIN rows \ {id} :
                      ~(rows[id][1] < rows[other][2] /\ rows[other][1] < rows[id][2])}
    IN  [intervals |-> {Interval(rows[id][1], rows[id][2], id) : id \in ok},
         event_queue |-> Heapify(LoadQueue(rows, ok)),
         schedule |-> rows]

LoadSchedule(rows) ==
    [intervals |-> {Interval(rows[id][1], rows[id][2], id) : id \in DOMAIN rows},
     event_queue |-> Heapify(LoadQueue(rows, DOMAIN rows)),
     schedule |-> rows]

\* mutant: remove_event rebuilds index and queue from the persisted rows that
\* are left, so entries popped earlier come back
RemoveEventReload(st, id) == LoadSchedule(RemoveSchedule(st.schedule, id))

\* mutant: the queue is not filtered
RemoveEventKeepQueue(st, id) ==
    [intervals |-> {iv \in st.intervals : iv.data # id},
     event_queue |-> st.event_queue,
     schedule |-> RemoveSchedule(st.schedule, id)]

\* mutant: the interval stays in the index
RemoveEventKeepInterval(st, id) ==
    LET Keep(e) == e[2] # id
    IN  [intervals |-> st.intervals,
         event_queue |-> Heapify(SelectSeq(st.event_queue, Keep)),
         schedule |-> RemoveSchedule(st.schedule, id)]

\* Scheduler.remove_event(event_id)
RemoveEvent(st, id) ==
    LET Keep(e) == e[2] # id
    IN  [intervals |-> {iv \in st.intervals : iv.data # id},
         event_queue |-> Heapify(SelectSeq(st.event_queue, Keep)),
         schedule |-> RemoveSchedule(st.schedule, id)]

\* mutant: one pop instead of a loop
PruneQueueOnce(q, now) == IF q # <<>> /\ q[1][1] < now THEN HeapPop(q) ELSE q

\* Scheduler.get_next_event: the queue after the pops at clock value now
RECURSIVE PruneQueue(_, _)
PruneQueue(q, now) ==
    IF q # <<>> /\ q[1][1] < now THEN PruneQueue(HeapPop(q), now) ELSE q

\* mutant: the pops are made on a copy, the queue keeps its past entries
QueueAfterNextCopy(q, now) == q

\* mutant: the entry returned is popped too
QueueAfterNextTake(q, now) ==
    IF PruneQueue(q, now) # <<>> THEN HeapPop(PruneQueue(q, now)) ELSE <<>>

\* Scheduler.get_next_event: the queue the call leaves in self.event_queue
QueueAfterNext(q, now) == PruneQueue(q, now)

\* Scheduler.get_next_event: the value returned
NextResult(q, now) ==
    LET rest == PruneQueue(q, now) IN IF rest # <<>> THEN rest[1] ELSE None

\* ------------------------------------------------------- responses
\* what the caller sees: the request it made (op), the HTTP status, the
\* detail or message, the data (the entry returned, or the id a conflict
\* names) and, for GET /scheduler/next, the value datetime.now() had
Response(op, status, detail, data) ==
    [op |-> op, status |-> status, detail |-> detail, data |-> data, now |-> None]

EmptyTable == [i \in {} |-> None]

\* a worker thread between two requests
Idle == [pc |-> "idle", op |-> "", id |-> "", date |-> 0, duration_hours |-> 0]

Init ==
    /\ events = EmptyTable
    /\ schedule = EmptyTable
    /\ intervals = {}
    /\ event_queue = <<>>
    /\ resp = Response("start", 0, "", None)
    /\ pruned = {}
    /\ hwm = 0
    /\ event_attendees = {}
    /\ task = [t \in Threads |-> Idle]

\* the state a request leaves behind and the response it gives; only
\* Database.delete_event and register_attendee write event_attendees
Outcome(evs, st, r, pr, h) ==
    [events |-> evs, intervals |-> st.intervals, event_queue |-> st.event_queue,
     schedule |-> st.schedule, resp |-> r, pruned |-> pr, hwm |-> h,
     event_attendees |-> event_attendees]

Apply(o) ==
    /\ events' = o.events
    /\ intervals' = o.intervals
    /\ event_queue' = o.event_queue
    /\ schedule' = o.schedule
    /\ resp' = o.resp
    /\ pruned' = o.pruned
    /\ hwm' = o.hwm
    /\ event_attendees' = o.event_attendees
    /\ UNCHANGED task

\* a queue entry lives from its push to its pop or its removal: once
\* remove_event has filtered the queue of id, its popped entries are history
Forget(id) == {e \in pruned : e[2] # id}

\* an HTTPException raised before anything is written
Reject(op, status, detail) ==
    {Outcome(events, Sched, Response(op, status, detail, None), pruned, hwm)}

\* Database.add_event
AddEvent(evs, id, date, capacity, duration_hours) ==
    [i \in DOMAIN evs \cup {id} |->
        IF i = id THEN [date |-> Isoformat(date), capacity |-> capacity,
                        duration_hours |-> duration_hours]
        ELSE evs[i]]

\* mutant: the capacity of a new event is not tested
CreateOutcomesAnyCapacity(id, date, capacity, duration_hours, role) ==
    IF role # "organizer" THEN Reject("create", 403, "Forbidden")
    ELSE IF ~DateParses(date) THEN Reject("create", 400, "Invalid date format")
    ELSE IF id \in DOMAIN events THEN Reject("create", 400, "Event ID already exists")
    ELSE LET evs == AddEvent(events, id, ParseDate(date), capacity, duration_hours)
         IN  {Outcome(evs, o.st,
                      IF o.err = "" THEN Response("create", 201, "Event created", None)
                      ELSE Response("create", 500, o.err, o.who),
                      pruned, hwm) :
                 o \in ScheduleOutcomes(Sched, evs, id, ParseDate(date), duration_hours)}

\* main.create_event (POST /events): every outcome of the request
CreateOutcomes(id, date, capacity, duration_hours, role) ==
    IF role # "organizer" THEN Reject("create", 403, "Forbidden")
    ELSE IF capacity <= 0 THEN Reject("create", 400, "Capacity must be positive")
    ELSE IF ~DateParses(date) THEN Reject("create", 400, "Invalid date format")
    ELSE IF id \in DOMAIN events THEN Reject("create", 400, "Event ID already exists")
    ELSE LET evs == AddEvent(events, id, ParseDate(date), capacity, duration_hours)
         IN  {Outcome(evs, o.st,
                      IF o.err = "" THEN Response("create", 201, "Event created", None)
                      ELSE Response("create", 500, o.err, o.who),
                      pruned, hwm) :
                 o \in ScheduleOutcomes(Sched, evs, id, ParseDate(date), duration_hours)}

CreateEvent(id, date, capacity, duration_hours, role) ==
    \E o \in CreateOutcomes(id, date, capacity, duration_hours, role) : Apply(o)

\* Database.update_event: the row after the UPDATE of the truthy fields
UpdateRow(row, date, capacity, duration_hours) ==
    [date |-> IF date # None THEN Isoformat(ParseDate(date)) ELSE row.date,
     capacity |-> IF Truthy(capacity) THEN capacity[1] ELSE row.capacity,
     duration_hours |-> IF Truthy(duration_hours) THEN duration_hours[1]
                        ELSE row.duration_hours]

\* mutant: the scheduling error is caught and the update reports success
UpdateOutcomesSwallow(id, other, date, capacity, duration_hours, permitted) ==
    IF id \notin DOMAIN events THEN Reject("update", 404, "Event not found")
    ELSE IF ~permitted THEN Reject("update", 403, "Forbidden")
    ELSE IF capacity # None /\ capacity[1] <= 0
    THEN Reject("update", 400, "Capacity must be positive")
    ELSE IF date # None /\ ~DateParses(date) THEN Reject("update", 400, "Invalid date format")
    ELSE IF ~(other \/ date # None \/ Truthy(capacity) \/ Truthy(duration_hours))
    THEN Reject("update", 400, "Update failed")
    ELSE LET row == UpdateRow(events[id], date, capacity, duration_hours)
             evs == [events EXCEPT ![id] = row]
         IN  IF date # None \/ Truthy(duration_hours)
             THEN {Outcome(evs, o.st, Response("update", 200, "updated", None),
                           Forget(id), hwm) :
                      o \in ScheduleOutcomes(RemoveEvent(Sched, id), evs, id,
                                             ParseDate(row.date), row.duration_hours)}
             ELSE {Outcome(evs, Sched, Response("update", 200, "updated", None),
                           pruned, hwm)}

\* mutant: the event is rescheduled from the record read before the UPDATE
UpdateOutcomesStale(id, other, date, capacity, duration_hours, permitted) ==
    IF id \notin DOMAIN events THEN Reject("update", 404, "Event not found")
    ELSE IF ~permitted THEN Reject("update", 403, "Forbidden")
    ELSE IF capacity # None /\ capacity[1] <= 0
    THEN Reject("update", 400, "Capacity must be positive")
    ELSE IF date # None /\ ~DateParses(date) THEN Reject("update", 400, "Invalid date format")
    ELSE IF ~(other \/ date # None \/ Truthy(capacity) \/ Truthy(duration_hours))
    THEN Reject("update", 400, "Update failed")
    ELSE LET row == UpdateRow(events[id], date, capacity, duration_hours)
             evs == [events EXCEPT ![id] = row]
         IN  IF date # None \/ Truthy(duration_hours)
             THEN {Outcome(evs, o.st,
                           IF o.err = "" THEN Response("update", 200, "updated", None)
                           ELSE Response("update", 500, o.err, o.who),
                           Forget(id), hwm) :
                      o \in ScheduleOutcomes(RemoveEvent(Sched, id), evs, id,
                                             ParseDate(events[id].date),
                                             events[id].duration_hours)}
             ELSE {Outcome(evs, Sched, Response("update", 200, "updated", None),
                           pruned, hwm)}

\* mutant: the new entry is attempted while the old one is still in place
UpdateOutcomesNoRemove(id, other, date, capacity, duration_hours, permitted) ==
    IF id \notin DOMAIN events THEN Reject("update", 404, "Event not found")
    ELSE IF ~permitted THEN Reject("update", 403, "Forbidden")
    ELSE IF capacity # None /\ capacity[1] <= 0
    THEN Reject("update", 400, "Capacity must be positive")
    ELSE IF date # None /\ ~DateParses(date) THEN Reject("update", 400, "Invalid date format")
    ELSE IF ~(other \/ date # None \/ Truthy(capacity) \/ Truthy(duration_hours))
    THEN Reject("update", 400, "Update failed")
    ELSE LET row == UpdateRow(events[id], date, capacity, duration_hours)
             evs == [events EXCEPT ![id] = row]
         IN  IF date # None \/ Truthy(duration_hours)
             THEN {Outcome(evs, IF o.err = "" THEN RemoveEvent(Sched, id) ELSE o.st,
                           IF o.err = "" THEN Response("update", 200, "updated", None)
                           ELSE Response("update", 500, o.err, o.who),
                           Forget(id), hwm) :
                      o \in ScheduleOutcomes(Sched, evs, id,
                                             ParseDate(row.date), row.duration_hours)}
             ELSE {Outcome(evs, Sched, Response("update", 200, "updated", None),
                           pruned, hwm)}

\* mutant: every accepted update reschedules the event
UpdateOutcomesAlwaysReschedule(id, other, date, capacity, duration_hours, permitted) ==
    IF id \notin DOMAIN events THEN Reject("update", 404, "Event not found")
    ELSE IF ~permitted THEN Reject("update", 403, "Forbidden")
    ELSE IF capacity # None /\ capacity[1] <= 0
    THEN Reject("update", 400, "Capacity must be positive")
    ELSE IF date # None /\ ~DateParses(date) THEN Reject("update", 400, "Invalid date format")
    ELSE IF ~(other \/ date # None \/ Truthy(capacity) \/ Truthy(duration_hours))
    THEN Reject("update", 400, "Update failed")
    ELSE LET row == UpdateRow(events[id], date, capacity, duration_hours)
             evs == [events EXCEPT ![id] = row]
         IN  {Outcome(evs, o.st,
                      IF o.err = "" THEN Response("update", 200, "updated", None)
                      ELSE Response("update", 500, o.err, o.who),
                      Forget(id), hwm) :
                 o \in ScheduleOutcomes(RemoveEvent(Sched, id), evs, id,
                                        ParseDate(row.date), row.duration_hours)}

\* main.update_event (PUT /events/{event_id}) with EventManager.update_event:
\* every outcome of the request; other stands for a new title, type or
\* instructor
UpdateOutcomes(id, other, date, capacity, duration_hours, permitted) ==
    IF id \notin DOMAIN events THEN Reject("update", 404, "Event not found")
    ELSE IF ~permitted THEN Reject("update", 403, "Forbidden")
    ELSE IF capacity # None /\ capacity[1] <= 0
    THEN Reject("update", 400, "Capacity must be positive")
    ELSE IF date # None /\ ~DateParses(date) THEN Reject("update", 400, "Invalid date format")
    ELSE IF ~(other \/ date # None \/ Truthy(capacity) \/ Truthy(duration_hours))
    THEN Reject("update", 400, "Update failed")
    ELSE LET row == UpdateRow(events[id], date, capacity, duration_hours)
             evs == [events EXCEPT ![id] = row]
         IN  IF date # None \/ Truthy(duration_hours)
             THEN {Outcome(evs, o.st,
                           IF o.err = "" THEN Response("update", 200, "updated", None)
                           ELSE Response("update", 500, o.err, o.who),
                           Forget(id), hwm) :
                      o \in ScheduleOutcomes(RemoveEvent(Sched, id), evs, id,
                                             ParseDate(row.date), row.duration_hours)}
             ELSE {Outcome(evs, Sched, Response("update", 200, "updated", None),
                           pruned, hwm)}

UpdateEvent(id, other, date, capacity, duration_hours, permitted) ==
    \E o \in UpdateOutcomes(id, other, date, capacity, duration_hours, permitted) : Apply(o)

\* mutant: the registrations of a deleted event are kept
DeleteAttendeesKeep(regs, id) == regs

\* Database.delete_event: the event_attendees table after the DELETE
DeleteAttendees(regs, id) == {reg \in regs : reg[1] # id}

\* Database.delete_event: the events table after the DELETE
DeleteRow(evs, id) == [i \in DOMAIN evs \ {id} |-> evs[i]]

\* main.delete_event (DELETE /events/{event_id}) with
\* EventManager.delete_event: the outcome of the request
DeleteOutcomes(id, permitted) ==
    IF id \notin DOMAIN events THEN Reject("delete", 404, "Event not found")
    ELSE IF ~permitted THEN Reject("delete", 403, "Forbidden")
    ELSE {[Outcome(DeleteRow(events, id),
                   RemoveEvent([Sched EXCEPT !.schedule = RemoveSchedule(schedule, id)], id),
                   Response("delete", 200, "deleted", None), Forget(id), hwm)
              EXCEPT !.event_attendees = DeleteAttendees(event_attendees, id)]}

DeleteEvent(id, permitted) == \E o \in DeleteOutcomes(id, permitted) : Apply(o)

\* mutant: the events whose entries are popped leave the index and the
\* schedule table too
GetNextOutcomeDropPast(now) ==
    LET next_event == NextResult(event_queue, now)
        past == {e[2] : e \in {x \in QueueEntries(event_queue) : x[1] < now}}
        r == IF next_event = None THEN Response("next", 200, "No scheduled events", None)
             ELSE IF next_event[2] \in DOMAIN events
             THEN Response("next", 200, "Next event retrieved", next_event)
             ELSE Response("next", 500, "AttributeError", next_event)
    IN  Outcome(events,
                [intervals |-> {iv \in intervals : iv.data \notin past},
                 event_queue |-> QueueAfterNext(event_queue, now),
                 schedule |-> [i \in DOMAIN schedule \ past |-> schedule[i]]],
                [r EXCEPT !.now = Some(now)],
                pruned \cup {e \in QueueEntries(event_queue) : e[1] < now},
                IF now > hwm THEN now ELSE hwm)

\* main.get_next_event (GET /scheduler/next) while datetime.now() is now
GetNextOutcome(now) ==
    LET next_event == NextResult(event_queue, now)
        r == IF next_event = None THEN Response("next", 200, "No scheduled events", None)
             ELSE IF next_event[2] \in DOMAIN events
             THEN Response("next", 200, "Next event retrieved", next_event)
             ELSE Response("next", 500, "AttributeError", next_event)
    IN  Outcome(events, [Sched EXCEPT !.event_queue = QueueAfterNext(event_queue, now)],
                [r EXCEPT !.now = Some(now)],
                pruned \cup {e \in QueueEntries(event_queue) : e[1] < now},
                IF now > hwm THEN now ELSE hwm)

GetNextEvent(now) == Apply(GetNextOutcome(now))

\* process restart: main.py builds Scheduler(db) over the persisted tables
Restart ==
    Apply(Outcome(events, LoadSchedule(schedule), Response("start", 0, "", None), {}, 0))

\* ------------------------------------------------------- request inputs
DateInputs == {Isoformat(d) : d \in Dates}

\* Requests come from an authenticated user who may make them (an organizer
\* creates, the organizer or an admin updates and deletes) and carry dates
\* that parse; the 401, 403 and date-format rejections write nothing.
\* POST /events bodies: every date and duration, and a capacity of 0
CreateInputs ==
    {[date |-> date, capacity |-> 1, duration_hours |-> h, role |-> "organizer"] :
        date \in DateInputs, h \in Durations}
    \cup {[date |-> Isoformat(0), capacity |-> 0, duration_hours |-> 1, role |-> "organizer"]}

\* PUT /events/{id} bodies: every choice of date and duration, a title alone
\* and a capacity alone
UpdateInputs ==
    {[other |-> FALSE, date |-> date, capacity |-> None, duration_hours |-> h,
      permitted |-> TRUE] :
        date \in DateInputs \cup {None}, h \in {None} \cup {Some(x) : x \in Durations}}
    \cup {[other |-> TRUE, date |-> None, capacity |-> None, duration_hours |-> None,
           permitted |-> TRUE]}
    \cup {[other |-> FALSE, date |-> None, capacity |-> Some(c), duration_hours |-> None,
           permitted |-> TRUE] : c \in Capacities}

Create == \E id \in Ids, r \in CreateInputs :
             CreateEvent(id, r.date, r.capacity, r.duration_hours, r.role)

Update == \E id \in Ids, r \in UpdateInputs :
             UpdateEvent(id, r.other, r.date, r.capacity, r.duration_hours, r.permitted)

Delete == \E id \in Ids : DeleteEvent(id, TRUE)

GetNext == \E now \in Nows : GetNextEvent(now)

Next == Create \/ Update \/ Delete \/ GetNext \/ Restart

Spec == Init /\ [][Next]_vars

\* The same handlers over three event ids, with one-hour events and updates
\* of the date alone.
CreateThree == \E id \in ThreeIds, d \in Dates :
                  CreateEvent(id, Isoformat(d), 1, 1, "organizer")

UpdateThree == \E id \in ThreeIds, d \in Dates :
                  UpdateEvent(id, FALSE, Isoformat(d), None, None, TRUE)

DeleteThree == \E id \in ThreeIds : DeleteEvent(id, TRUE)

NextThree == CreateThree \/ UpdateThree \/ DeleteThree \/ GetNext \/ Restart

SpecThree == Init /\ [][NextThree]_vars

\* ------------------------------------------------------- properties
\* [s, e) and the interval iv share an instant
Meets(iv, s, e) == iv.begin < e /\ s < iv.end /\ s < e

\* some stored interval intersects [s, e)
Intersects(tree, s, e) == \E iv \in tree : Meets(iv, s, e)

\* id has no interval, no queue entry and no persisted row
Unscheduled(id) ==
    /\ \A iv \in intervals : iv.data # id
    /\ \A e \in QueueEntries(event_queue) : e[2] # id
    /\ id \notin DOMAIN schedule

\* the request reaches scheduler.schedule_event (main.py:189)
CreateSchedules(id, r) ==
    r.role = "organizer" /\ r.capacity > 0 /\ DateParses(r.date) /\ id \notin DOMAIN events

\* the request reaches remove_event and schedule_event (manager.py:70-72)
UpdateReschedules(id, r) ==
    /\ id \in DOMAIN events /\ r.permitted
    /\ ~(r.capacity # None /\ r.capacity[1] <= 0)
    /\ (r.date # None => DateParses(r.date))
    /\ (r.date # None \/ Truthy(r.duration_hours))

\* the outcomes of the create request (id, r), of the update request (id, r)
CreateOf(id, r) == CreateOutcomes(id, r.date, r.capacity, r.duration_hours, r.role)

UpdateOf(id, r) ==
    UpdateOutcomes(id, r.other, r.date, r.capacity, r.duration_hours, r.permitted)

\* the interval schedule_event computes for the request (manager.py:93-96)
CreateStart(r) == Timestamp(ParseDate(r.date))

CreateEnd(r) == Timestamp(ParseDate(r.date) + r.duration_hours)

UpdatedRow(id, r) == UpdateRow(events[id], r.date, r.capacity, r.duration_hours)

UpdateStart(id, r) == Timestamp(ParseDate(UpdatedRow(id, r).date))

UpdateEnd(id, r) ==
    Timestamp(ParseDate(UpdatedRow(id, r).date) + UpdatedRow(id, r).duration_hours)

\* the scheduler part of an outcome
OutSched(o) ==
    [intervals |-> o.intervals, event_queue |-> o.event_queue, schedule |-> o.schedule]

\* C1: no two distinct scheduled events overlap: for every two event ids that
\* hold an interval in the index, or a persisted schedule row, the half-open
\* intervals [start, end) do not intersect, in every state reached from the
\* empty store by create, update, delete, get_next_event and restart.
NoOverlap ==
    /\ \A a, b \in intervals :
          a.data # b.data => ~(a.begin < b.end /\ b.begin < a.end)
    /\ \A a, b \in DOMAIN schedule :
          a # b => ~(schedule[a][1] < schedule[b][2] /\ schedule[b][1] < schedule[a][2])

\* two events scheduled back to back, the second placed by a reschedule
NoOverlapWitness ==
    /\ resp.op = "update" /\ resp.status = 200
    /\ \E a, b \in intervals : a.data # b.data /\ a.end = b.begin
    /\ Cardinality(DOMAIN schedule) = 2

\* C2: a schedule_event call whose interval intersects a stored interval
\* fails with the conflict error and leaves the interval index, the queue and
\* the persisted rows as they were before the call (in an update: as
\* remove_event left them), for every create and update request in every
\* reachable state.
ConflictLeavesScheduleUnchanged ==
    /\ \A id \in Ids, r \in CreateInputs :
          (CreateSchedules(id, r)
              /\ Intersects(intervals, CreateStart(r), CreateEnd(r)))
          => \A o \in CreateOf(id, r) :
                /\ o.resp.status = 500 /\ o.resp.detail = "Conflict"
                /\ OutSched(o) = Sched
    /\ \A id \in Ids, r \in UpdateInputs :
          (UpdateReschedules(id, r)
              /\ Intersects(RemoveEvent(Sched, id).intervals,
                            UpdateStart(id, r), UpdateEnd(id, r)))
          => \A o \in UpdateOf(id, r) :
                /\ o.resp.status = 500 /\ o.resp.detail = "Conflict"
                /\ OutSched(o) = RemoveEvent(Sched, id)

\* a create was refused for a conflict with a scheduled event, and its event
\* holds no schedule entry
ConflictWitness ==
    /\ resp.op = "create" /\ resp.detail = "Conflict"
    /\ \E iv \in intervals : resp.data = Some(iv.data)
    /\ \E id \in DOMAIN events : Unscheduled(id)

\* C3: schedule_event decides with half-open semantics: a call with a
\* non-empty interval [s, e) is rejected if and only if some stored interval
\* [s', e') has s' < e and s < e'; otherwise the event is scheduled with
\* exactly that interval.
HalfOpenConflict ==
    /\ \A id \in Ids, r \in CreateInputs :
          (CreateSchedules(id, r) /\ CreateStart(r) < CreateEnd(r))
          => \A o \in CreateOf(id, r) :
                /\ (o.resp.status = 500) <=>
                      (\E iv \in intervals :
                          iv.begin < CreateEnd(r) /\ CreateStart(r) < iv.end)
                /\ (o.resp.status # 500) =>
                      (o.resp.status = 201
                       /\ Interval(CreateStart(r), CreateEnd(r), id) \in o.intervals)
    /\ \A id \in Ids, r \in UpdateInputs :
          (UpdateReschedules(id, r) /\ UpdateStart(id, r) < UpdateEnd(id, r))
          => \A o \in UpdateOf(id, r) :
                /\ (o.resp.status = 500) <=>
                      (\E iv \in RemoveEvent(Sched, id).intervals :
                          iv.begin < UpdateEnd(id, r) /\ UpdateStart(id, r) < iv.end)
                /\ (o.resp.status # 500) =>
                      (o.resp.status = 200
                       /\ Interval(UpdateStart(id, r), UpdateEnd(id, r), id) \in o.intervals)

\* an event was created starting exactly where the other one ends, or ending
\* exactly where it starts
HalfOpenWitness ==
    /\ resp.op = "create" /\ resp.status = 201
    /\ \E a, b \in intervals : a.data # b.data /\ a.end = b.begin

\* C4: remove_event on an id that holds no schedule entry changes nothing and
\* raises nothing: the index, the set of queue entries and the persisted rows
\* stay as they are; deleting such an event succeeds without touching the
\* schedule, and rescheduling it does what schedule_event alone does.
RemoveIdempotent ==
    \A id \in Ids :
        Unscheduled(id) =>
            /\ RemoveEvent(Sched, id).intervals = intervals
            /\ QueueEntries(RemoveEvent(Sched, id).event_queue) = QueueEntries(event_queue)
            /\ RemoveEvent(Sched, id).schedule = schedule
            /\ RemoveEvent(RemoveEvent(Sched, id), id) = RemoveEvent(Sched, id)
            /\ \A o \in DeleteOutcomes(id, TRUE) :
                  id \in DOMAIN events =>
                      /\ o.resp.status = 200
                      /\ o.intervals = intervals /\ o.schedule = schedule
                      /\ QueueEntries(o.event_queue) = QueueEntries(event_queue)
            /\ \A r \in UpdateInputs :
                  UpdateReschedules(id, r) =>
                      {OutSched(o) : o \in UpdateOf(id, r)} =
                      {s.st : s \in ScheduleOutcomes(Sched, [events EXCEPT ![id] = UpdatedRow(id, r)],
                                      id, ParseDate(UpdatedRow(id, r).date),
                                      UpdatedRow(id, r).duration_hours)}

\* an update ran remove_event for an event that was never scheduled (its
\* duration has been 0 since it was created: no update writes a 0) while the
\* other event holds its schedule entry
RemoveIdempotentWitness ==
    /\ resp.op = "update" /\ resp.status = 500 /\ resp.detail = "NullInterval"
    /\ \E id \in DOMAIN events :
          /\ events[id].duration_hours = 0 /\ Unscheduled(id)
          /\ \E other \in DOMAIN schedule : other # id

\* C5: get_next_event at clock value now returns nothing or an entry whose
\* start is not before now: for the call just answered and for a call at any
\* clock value in any reachable state of the queue.
NextNotBeforeNow ==
    /\ (resp.op = "next" /\ resp.data # None) => resp.data[1] >= resp.now[1]
    /\ \A now \in Nows :
          GetNextOutcome(now).resp.data # None
              => GetNextOutcome(now).resp.data[1] >= now

\* a call popped a past entry and returned a later one
NextNotBeforeNowWitness ==
    /\ resp.op = "next" /\ resp.data # None
    /\ \E e \in pruned : e[1] < resp.now[1]
    /\ resp.data[1] > resp.now[1]

\* C6: pruning is permanent: an entry a get_next_event call has popped is
\* returned by no later call of the process, at a later or an earlier clock
\* value.  An entry is what one schedule_event pushed; rescheduling the event
\* pushes a new entry.
PrunedNeverReturned ==
    /\ (resp.op = "next" /\ resp.data # None) => resp.data \notin pruned
    /\ \A now \in Nows : GetNextOutcome(now).resp.data \notin pruned
    /\ pruned \cap QueueEntries(event_queue) = {}

\* events at 0, 1 and 2; a call after 1 popped the first two and returned the
\* third; the call just answered ran at a clock value set back to 0 and
\* returned the third again
PrunedNeverReturnedWitness ==
    /\ pruned = {<<0, "A">>, <<1, "B">>}
    /\ hwm = 2
    /\ resp.op = "next" /\ resp.now = Some(0) /\ resp.data = <<2, "C">>

\* the entry of the persisted schedule a call at now should return: the
\* earliest start among the rows that start at now or later
Reference(rows, now) ==
    LET ahead == {id \in DOMAIN rows : rows[id][1] >= Timestamp(now)}
    IN  IF ahead = {} THEN None
        ELSE LET first == CHOOSE id \in ahead :
                              \A other \in ahead : rows[id][1] <= rows[other][1]
             IN  <<FromTimestamp(rows[first][1]), first>>

\* C7: a get_next_event call whose clock value is not below that of any
\* earlier call returns the earliest persisted schedule entry that starts at
\* now or later, or nothing when there is none, and the entry returned stays
\* in the queue.
NextMatchesSchedule ==
    /\ \A now \in Nows :
          now >= hwm =>
              LET o == GetNextOutcome(now)
              IN  /\ o.resp.data = Reference(schedule, now)
                  /\ o.resp.data # None => o.resp.data \in QueueEntries(o.event_queue)
    /\ (resp.op = "next" /\ resp.now = Some(hwm)) =>
          /\ resp.data = Reference(schedule, hwm)
          /\ resp.data # None => resp.data \in QueueEntries(event_queue)

\* after an entry was popped and an event rescheduled, a call at the latest
\* clock value returned the rescheduled event
NextMatchesScheduleWitness ==
    /\ resp.op = "next" /\ resp.now = Some(hwm) /\ hwm > 0
    /\ resp.data # None /\ resp.data[1] > hwm
    /\ pruned # {}

\* C8 as stated: in every reachable state and at every clock value the
\* scheduler rebuilt from the persisted rows returns what the running
\* scheduler returns.
RestartSameNext ==
    \A now \in Nows :
        NextResult(LoadSchedule(schedule).event_queue, now) = NextResult(event_queue, now)

\* C8 amended: the rebuilt scheduler returns what the running scheduler
\* returns at every clock value that is not below the clock value of an
\* earlier get_next_event call of the running process.
RestartSameNextForward ==
    \A now \in Nows :
        now >= hwm =>
            NextResult(LoadSchedule(schedule).event_queue, now) = NextResult(event_queue, now)

\* the running scheduler has popped an entry, so the rebuilt queue differs
\* from the running one, and at the current clock value both return the same
\* event
RestartSameNextWitness ==
    /\ pruned # {} /\ hwm > 0
    /\ LoadSchedule(schedule).event_queue # event_queue
    /\ NextResult(event_queue, hwm) # None
    /\ NextResult(LoadSchedule(schedule).event_queue, hwm) = NextResult(event_queue, hwm)

\* the persisted schedule holds exactly these rows, in hours
RowsAre(rows) ==
    /\ DOMAIN schedule = DOMAIN rows
    /\ \A id \in DOMAIN rows :
          schedule[id] = <<Timestamp(rows[id][1]), Timestamp(rows[id][2])>>

\* id holds its entry [s, e) in the index, the queue and the table of o
ScheduledIn(o, id, s, e) ==
    /\ Interval(Timestamp(s), Timestamp(e), id) \in o.intervals
    /\ <<s, id>> \in QueueEntries(o.event_queue)
    /\ id \in DOMAIN o.schedule /\ o.schedule[id] = <<Timestamp(s), Timestamp(e)>>

\* id holds the slot [s, e) in the index and in the table of o (its queue
\* entry may have been popped by get_next_event)
HoldsSlot(o, id, s, e) ==
    /\ Interval(Timestamp(s), Timestamp(e), id) \in o.intervals
    /\ id \in DOMAIN o.schedule /\ o.schedule[id] = <<Timestamp(s), Timestamp(e)>>

OnlyA(s, e) == [i \in {"A"} |-> <<s, e>>]

\* C9: with A scheduled at [0, 2) alone, creating B at [1, 3) is refused with
\* a conflict that names A; rescheduling A to [3, 5) succeeds; and with A at
\* [3, 5) alone B is scheduled at [1, 3) without conflict, by the create
\* request when B has no record and by an update of B when the refused
\* create left its record, after which A and B both hold their entries.
RescheduleFreesSlot ==
    /\ (RowsAre(OnlyA(0, 2)) /\ "B" \notin DOMAIN events) =>
          \A o \in CreateOutcomes("B", Isoformat(1), 1, 2, "organizer") :
              /\ o.resp.status = 500 /\ o.resp.detail = "Conflict"
              /\ o.resp.data = Some("A")
              /\ OutSched(o) = Sched
    /\ RowsAre(OnlyA(0, 2)) =>
          \A o \in UpdateOutcomes("A", FALSE, Isoformat(3), None, None, TRUE) :
              /\ o.resp.status = 200
              /\ ScheduledIn(o, "A", 3, 5)
              /\ DOMAIN o.schedule = {"A"}
    /\ (RowsAre(OnlyA(3, 5)) /\ "B" \notin DOMAIN events) =>
          \A o \in CreateOutcomes("B", Isoformat(1), 1, 2, "organizer") :
              /\ o.resp.status = 201
              /\ HoldsSlot(o, "A", 3, 5) /\ ScheduledIn(o, "B", 1, 3)
    /\ (RowsAre(OnlyA(3, 5)) /\ "B" \in DOMAIN events) =>
          \A o \in UpdateOutcomes("B", FALSE, Isoformat(1), None, Some(2), TRUE) :
              /\ o.resp.status = 200
              /\ HoldsSlot(o, "A", 3, 5) /\ ScheduledIn(o, "B", 1, 3)

\* B, whose create at [1, 3) was refused, holds [1, 3) after an update, next
\* to A at [3, 5)
RescheduleFreesSlotWitness ==
    /\ resp.op = "update" /\ resp.status = 200
    /\ HoldsSlot(Outcome(events, Sched, resp, pruned, hwm), "A", 3, 5)
    /\ ScheduledIn(Outcome(events, Sched, resp, pruned, hwm), "B", 1, 3)
    /\ events["B"].date = Isoformat(1) /\ events["B"].duration_hours = 2

\* the intervals of the events other than id
Others(id) == {iv \in intervals : iv.data # id}

\* C10: an update that changes start or duration to an interval that
\* intersects the interval of another scheduled event ends with an error
\* response, never a success; the persisted event record carries the new
\* timing; and the event is left with no interval, no queue entry and no
\* persisted schedule row.
UpdateConflictUnschedules ==
    \A id \in Ids, r \in UpdateInputs :
        (UpdateReschedules(id, r)
            /\ Intersects(Others(id), UpdateStart(id, r), UpdateEnd(id, r)))
        => \A o \in UpdateOf(id, r) :
              /\ o.resp.status >= 400
              /\ o.resp.detail = "Conflict"
              /\ o.events[id] = UpdatedRow(id, r)
              /\ (r.date # None => o.events[id].date = r.date)
              /\ (Truthy(r.duration_hours)
                    => o.events[id].duration_hours = r.duration_hours[1])
              /\ \A iv \in o.intervals : iv.data # id
              /\ \A e \in QueueEntries(o.event_queue) : e[2] # id
              /\ id \notin DOMAIN o.schedule

\* an update was refused for a conflict: the event's record holds a timing
\* that intersects the other event's interval and the event has no entry
UpdateConflictWitness ==
    /\ resp.op = "update" /\ resp.status = 500 /\ resp.detail = "Conflict"
    /\ \E id \in DOMAIN events :
          /\ Unscheduled(id)
          /\ Intersects(intervals, Timestamp(ParseDate(events[id].date)),
                Timestamp(ParseDate(events[id].date) + events[id].duration_hours))
          /\ resp.data # Some(id)

\* C11 as stated: a create request whose interval intersects that of a
\* scheduled event fails, leaves the interval index and the queue as they
\* were, and leaves no record of the new id in the events table.
CreateConflictRejectedWhole ==
    \A id \in Ids, r \in CreateInputs :
        (CreateSchedules(id, r) /\ Intersects(intervals, CreateStart(r), CreateEnd(r)))
        => \A o \in CreateOf(id, r) :
              /\ o.resp.status >= 400
              /\ o.intervals = intervals /\ o.event_queue = event_queue
              /\ id \notin DOMAIN o.events

\* ------------------------------------------------------- persistence failure
\* Scheduler.schedule_event when db.add_schedule raises (sqlite3.Error from
\* execute or commit): lines 98-105 have run, the row is not written and the
\* exception leaves the call
ScheduleOutcomesPersistFails(st, evs, id, date, duration_hours) ==
    LET start_ts == Timestamp(date)
        end_ts == Timestamp(date + duration_hours)
        overlapping == Overlap(st.intervals, start_ts, end_ts)
    IN  IF OverlapsRange(st.intervals, start_ts, end_ts)
        THEN IF overlapping = {}
             THEN {[st |-> st, err |-> "StopIteration", who |-> None]}
             ELSE {[st |-> st,
                    err |-> IF iv.data \in DOMAIN evs THEN "Conflict" ELSE "TypeError",
                    who |-> Some(iv.data)] : iv \in overlapping}
        ELSE IF IsNull(start_ts, end_ts)
        THEN {[st |-> st, err |-> "NullInterval", who |-> None]}
        ELSE {[st |-> [intervals |-> st.intervals \cup {Interval(start_ts, end_ts, id)},
                       event_queue |-> HeapPush(st.event_queue, <<date, id>>),
                       schedule |-> st.schedule],
               err |-> "OperationalError", who |-> None]}

\* main.create_event when db.add_schedule raises inside schedule_event
CreateOutcomesPersistFails(id, date, capacity, duration_hours, role) ==
    IF role # "organizer" THEN Reject("create", 403, "Forbidden")
    ELSE IF capacity <= 0 THEN Reject("create", 400, "Capacity must be positive")
    ELSE IF ~DateParses(date) THEN Reject("create", 400, "Invalid date format")
    ELSE IF id \in DOMAIN events THEN Reject("create", 400, "Event ID already exists")
    ELSE LET evs == AddEvent(events, id, ParseDate(date), capacity, duration_hours)
         IN  {Outcome(evs, o.st, Response("create", 500, o.err, o.who), pruned, hwm) :
                 o \in ScheduleOutcomesPersistFails(Sched, evs, id, ParseDate(date),
                                                    duration_hours)}

CreateEventPersistFails(id, date, capacity, duration_hours, role) ==
    \E o \in CreateOutcomesPersistFails(id, date, capacity, duration_hours, role) : Apply(o)

\* create requests with one-hour events during which the schedule table
\* cannot be written
FaultInputs ==
    {[date |-> date, capacity |-> 1, duration_hours |-> 1, role |-> "organizer"] :
        date \in DateInputs}

CreateFault == \E id \in Ids, r \in FaultInputs :
                  CreateEventPersistFails(id, r.date, r.capacity, r.duration_hours, r.role)

NextFault == Create \/ CreateFault \/ Update \/ Delete \/ Restart

\* the handlers with persistence failures of db.add_schedule
SpecFault == Init /\ [][NextFault]_vars

\* C12 as stated: when add_schedule raises after the in-memory insert, the
\* insert is rolled back: after the failed call the interval index and the
\* queue hold no entry for the event, and the index and the persisted
\* schedule table list the same events.
PersistFailureRolledBack ==
    \A id \in Ids, r \in FaultInputs :
        \A o \in CreateOutcomesPersistFails(id, r.date, r.capacity, r.duration_hours, r.role) :
            o.resp.detail = "OperationalError" =>
                /\ \A iv \in o.intervals : iv.data # id
                /\ \A e \in QueueEntries(o.event_queue) : e[2] # id
                /\ {iv.data : iv \in o.intervals} = DOMAIN o.schedule

\* ------------------------------------------------------- concurrent requests
\* The handlers are plain functions: the server runs each request on a thread
\* of its pool, over the one Scheduler and the one sqlite connection of
\* main.py, and the code takes no lock.  A thread runs one statement of
\* schedule_event, remove_event or delete_event at a time; between two
\* statements any other thread may run.
ConcMaxTime == 1

ConcDates == 0..ConcMaxTime

\* the requests that race are for events of the longest duration, so that
\* events created at different dates of ConcDates overlap
ConcDurations == {MaxDuration}

At(t, pc) == task[t].pc = pc

Goto(t, pc) == task' = [task EXCEPT ![t].pc = pc]

\* the thread answers its request
Done(t, status, detail, data) ==
    /\ resp' = Response(task[t].op, status, detail, data)
    /\ task' = [task EXCEPT ![t] = Idle]

TaskStart(t) == Timestamp(task[t].date)

TaskEnd(t) == Timestamp(task[t].date + task[t].duration_hours)

\* main.create_event up to manager.add_event (main.py:174-188, 192)
BeginCreate(t, id, date, duration_hours) ==
    /\ At(t, "idle")
    /\ IF id \in DOMAIN events
       THEN /\ resp' = Response("create", 400, "Event ID already exists", None)
            /\ UNCHANGED <<events, task>>
       ELSE /\ events' = AddEvent(events, id, date, 1, duration_hours)
            /\ task' = [task EXCEPT ![t] = [pc |-> "overlaps", op |-> "create", id |-> id,
                                            date |-> date, duration_hours |-> duration_hours]]
            /\ UNCHANGED resp
    /\ UNCHANGED <<schedule, intervals, event_queue, pruned, hwm, event_attendees>>

\* schedule_event: if self.intervals.overlaps(start_ts, end_ts) (manager.py:98)
StepOverlaps(t) ==
    /\ At(t, "overlaps")
    /\ IF OverlapsRange(intervals, TaskStart(t), TaskEnd(t))
       THEN Goto(t, "conflict") ELSE Goto(t, "insert")
    /\ UNCHANGED <<events, schedule, intervals, event_queue, resp, pruned, hwm,
                   event_attendees>>

\* schedule_event: the lookup of the conflicting event and the raise
\* (manager.py:99-102)
StepConflict(t) ==
    /\ At(t, "conflict")
    /\ LET overlapping == Overlap(intervals, TaskStart(t), TaskEnd(t))
       IN  IF overlapping = {} THEN Done(t, 500, "StopIteration", None)
           ELSE \E iv \in overlapping :
                   Done(t, 500, IF iv.data \in DOMAIN events THEN "Conflict" ELSE "TypeError",
                        Some(iv.data))
    /\ UNCHANGED <<events, schedule, intervals, event_queue, pruned, hwm, event_attendees>>

\* schedule_event: self.intervals[start_ts:end_ts] = event.id (manager.py:104)
StepInsert(t) ==
    /\ At(t, "insert")
    /\ IF IsNull(TaskStart(t), TaskEnd(t))
       THEN Done(t, 500, "NullInterval", None) /\ UNCHANGED intervals
       ELSE /\ intervals' = intervals \cup {Interval(TaskStart(t), TaskEnd(t), task[t].id)}
            /\ Goto(t, "heappush")
            /\ UNCHANGED resp
    /\ UNCHANGED <<events, schedule, event_queue, pruned, hwm, event_attendees>>

\* schedule_event: heapq.heappush (manager.py:105)
StepHeappush(t) ==
    /\ At(t, "heappush")
    /\ event_queue' = HeapPush(event_queue, <<task[t].date, task[t].id>>)
    /\ Goto(t, "add_schedule")
    /\ UNCHANGED <<events, schedule, intervals, resp, pruned, hwm, event_attendees>>

\* schedule_event: self.db.add_schedule (manager.py:106); create_event then
\* answers, update_event goes on to build its response (main.py:220)
StepAddSchedule(t) ==
    /\ At(t, "add_schedule")
    /\ schedule' = AddSchedule(schedule, task[t].id, TaskStart(t), TaskEnd(t))
    /\ IF task[t].op = "update" THEN Goto(t, "respond") /\ UNCHANGED resp
       ELSE Done(t, 201, "Event created", None)
    /\ UNCHANGED <<events, intervals, event_queue, pruned, hwm, event_attendees>>

\* main.update_event up to the call of manager.update_event (main.py:204-209),
\* for a body that carries a date alone
BeginUpdate(t, id, date) ==
    /\ At(t, "idle")
    /\ IF id \notin DOMAIN events
       THEN resp' = Response("update", 404, "Event not found", None) /\ UNCHANGED task
       ELSE /\ task' = [task EXCEPT ![t] = [pc |-> "get_event", op |-> "update", id |-> id,
                                            date |-> date, duration_hours |-> 0]]
            /\ UNCHANGED resp
    /\ UNCHANGED <<events, schedule, intervals, event_queue, pruned, hwm, event_attendees>>

\* EventManager.update_event: event = self.get_event(event_id) (manager.py:64-66)
StepGetEvent(t) ==
    /\ At(t, "get_event")
    /\ IF task[t].id \in DOMAIN events THEN Goto(t, "db_update") /\ UNCHANGED resp
       ELSE Done(t, 400, "Update failed", None)
    /\ UNCHANGED <<events, schedule, intervals, event_queue, pruned, hwm, event_attendees>>

\* EventManager.update_event: self.db.update_event, a committed UPDATE that
\* reports whether a row was changed (manager.py:68, database.py:155-157)
StepDbUpdate(t) ==
    /\ At(t, "db_update")
    /\ IF task[t].id \in DOMAIN events
       THEN /\ events' = [events EXCEPT ![task[t].id] =
                             UpdateRow(@, Isoformat(task[t].date), None, None)]
            /\ Goto(t, "remove_intervals")
            /\ UNCHANGED resp
       ELSE Done(t, 400, "Update failed", None) /\ UNCHANGED events
    /\ UNCHANGED <<schedule, intervals, event_queue, pruned, hwm, event_attendees>>

\* EventManager.update_event: updated_event = self.get_event(event_id), and
\* the first lines of schedule_event, which read its date and duration
\* (manager.py:71-72, 93-96); event.date of None raises AttributeError
StepReload(t) ==
    /\ At(t, "reload")
    /\ IF task[t].id \in DOMAIN events
       THEN /\ task' = [task EXCEPT ![t].pc = "overlaps",
                                    ![t].date = ParseDate(events[task[t].id].date),
                                    ![t].duration_hours = events[task[t].id].duration_hours]
            /\ UNCHANGED resp
       ELSE Done(t, 500, "AttributeError", None)
    /\ UNCHANGED <<events, schedule, intervals, event_queue, pruned, hwm, event_attendees>>

\* main.update_event: the response, built from manager.get_event(event_id)
\* (main.py:219-221)
StepRespond(t) ==
    /\ At(t, "respond")
    /\ IF task[t].id \in DOMAIN events THEN Done(t, 200, "updated", None)
       ELSE Done(t, 500, "AttributeError", None)
    /\ UNCHANGED <<events, schedule, intervals, event_queue, pruned, hwm, event_attendees>>

\* main.delete_event up to the call of manager.delete_event (main.py:227-231)
BeginDelete(t, id) ==
    /\ At(t, "idle")
    /\ IF id \notin DOMAIN events
       THEN resp' = Response("delete", 404, "Event not found", None) /\ UNCHANGED task
       ELSE /\ task' = [task EXCEPT ![t] = [pc |-> "db_delete", op |-> "delete", id |-> id,
                                            date |-> 0, duration_hours |-> 0]]
            /\ UNCHANGED resp
    /\ UNCHANGED <<events, schedule, intervals, event_queue, pruned, hwm, event_attendees>>

\* EventManager.delete_event: get_event and db.delete_event, one committed
\* transaction over event_attendees, schedule and events (manager.py:56-57)
StepDbDelete(t) ==
    /\ At(t, "db_delete")
    /\ IF task[t].id \notin DOMAIN events
       THEN /\ Done(t, 400, "Delete failed", None)
            /\ UNCHANGED <<events, schedule, event_attendees>>
       ELSE /\ events' = DeleteRow(events, task[t].id)
            /\ schedule' = RemoveSchedule(schedule, task[t].id)
            /\ event_attendees' = DeleteAttendees(event_attendees, task[t].id)
            /\ Goto(t, "remove_intervals")
            /\ UNCHANGED resp
    /\ UNCHANGED <<intervals, event_queue, pruned, hwm>>

\* remove_event: the intervals of the event leave the index (manager.py:110-112)
StepRemoveIntervals(t) ==
    /\ At(t, "remove_intervals")
    /\ intervals' = {iv \in intervals : iv.data # task[t].id}
    /\ Goto(t, "remove_queue")
    /\ UNCHANGED <<events, schedule, event_queue, resp, pruned, hwm, event_attendees>>

\* remove_event: the queue is filtered and heapified (manager.py:113-114)
StepRemoveQueue(t) ==
    /\ At(t, "remove_queue")
    /\ LET Keep(e) == e[2] # task[t].id
       IN  event_queue' = Heapify(SelectSeq(event_queue, Keep))
    /\ pruned' = Forget(task[t].id)
    /\ Goto(t, "remove_schedule")
    /\ UNCHANGED <<events, schedule, intervals, resp, hwm, event_attendees>>

\* remove_event: self.db.remove_schedule (manager.py:115); delete_event then
\* answers, update_event goes on to read the record again (manager.py:71)
StepRemoveSchedule(t) ==
    /\ At(t, "remove_schedule")
    /\ schedule' = RemoveSchedule(schedule, task[t].id)
    /\ IF task[t].op = "update" THEN Goto(t, "reload") /\ UNCHANGED resp
       ELSE Done(t, 200, "deleted", None)
    /\ UNCHANGED <<events, intervals, event_queue, pruned, hwm, event_attendees>>

ConcBeginCreate == \E t \in Threads, id \in Ids, d \in ConcDates, h \in ConcDurations :
                      BeginCreate(t, id, d, h)

ConcBeginDelete == \E t \in Threads, id \in Ids : BeginDelete(t, id)

ConcOverlaps == \E t \in Threads : StepOverlaps(t)

ConcConflict == \E t \in Threads : StepConflict(t)

ConcInsert == \E t \in Threads : StepInsert(t)

ConcHeappush == \E t \in Threads : StepHeappush(t)

ConcAddSchedule == \E t \in Threads : StepAddSchedule(t)

ConcDbDelete == \E t \in Threads : StepDbDelete(t)

ConcRemoveIntervals == \E t \in Threads : StepRemoveIntervals(t)

ConcRemoveQueue == \E t \in Threads : StepRemoveQueue(t)

ConcRemoveSchedule == \E t \in Threads : StepRemoveSchedule(t)

\* GET /scheduler/next on a third thread, while the clock stands at 0
ConcGetNext == GetNextEvent(0)

\* POST /events handled without interruption
ConcCreate == \E id \in Ids, d \in ConcDates :
                 CreateEvent(id, Isoformat(d), 1, MaxDuration, "organizer")

NextDeleteSteps ==
    \/ ConcCreate
    \/ ConcBeginDelete \/ ConcDbDelete \/ ConcRemoveIntervals \/ ConcRemoveQueue
    \/ ConcRemoveSchedule
    \/ ConcGetNext

\* delete requests taken one statement at a time, among create and
\* get_next_event requests that run without interruption
SpecDeleteSteps == Init /\ [][NextDeleteSteps]_vars

NextRace ==
    \/ ConcBeginCreate \/ ConcOverlaps \/ ConcConflict \/ ConcInsert \/ ConcHeappush
    \/ ConcAddSchedule

\* create requests alone, handled by two threads
SpecRace == Init /\ [][NextRace]_vars

\* C13 as stated: while create requests are handled concurrently, of two
\* requests whose intervals overlap at most one obtains a schedule entry: in
\* every reachable state no two events hold intersecting intervals in the
\* index, and no two hold intersecting rows in the schedule table.
CreateCheckInsertAtomic ==
    /\ \A a, b \in intervals :
          a.data # b.data => ~Meets(a, b.begin, b.end)
    /\ \A a, b \in DOMAIN schedule :
          a # b => ~(schedule[a][1] < schedule[b][2] /\ schedule[b][1] < schedule[a][2])

\* C14 as stated: in no reachable state, the states between two statements
\* of delete_event included, is an event's record gone from the events table
\* while the interval index, the queue or the schedule table holds an entry
\* for its id.
DeleteUnschedulesFirst ==
    \A t \in Threads :
        (task[t].op = "delete" /\ task[t].id \notin DOMAIN events)
            => Unscheduled(task[t].id)

\* while a delete stands between db.delete_event and remove_event, GET
\* /scheduler/next took the deleted event from the queue and failed on its
\* missing record
DeleteUnschedulesFirstSeen ==
    /\ resp.op = "next" /\ resp.status = 500
    /\ \E t \in Threads :
          /\ At(t, "remove_intervals")
          /\ resp.data # None /\ resp.data[2] = task[t].id
          /\ task[t].id \notin DOMAIN events

\* ------------------------------------------------------- registrations
MaxCapacity == 2

RegCapacities == 1..MaxCapacity

\* attendee ids: one more than the largest capacity
AttendeeIds == 1..(MaxCapacity + 1)

\* Database.get_attendee_count
AttendeeCount(regs, id) == Cardinality({reg \in regs : reg[1] = id})

\* Database.register_attendee: the table after the call, and what it returns
RegisterRow(evs, regs, id, attendee_id) ==
    IF id \notin DOMAIN evs THEN [regs |-> regs, ok |-> FALSE]
    ELSE IF AttendeeCount(regs, id) >= evs[id].capacity THEN [regs |-> regs, ok |-> FALSE]
    ELSE [regs |-> regs \cup {<<id, attendee_id>>}, ok |-> <<id, attendee_id>> \notin regs]

\* main.register_attendee (POST /events/{event_id}/register)
RegisterOutcomes(id, attendee_id) ==
    IF id \notin DOMAIN events THEN Reject("register", 404, "Event not found")
    ELSE LET row == RegisterRow(events, event_attendees, id, attendee_id)
         IN  {[Outcome(events, Sched,
                       IF row.ok THEN Response("register", 200, "registered", Some(attendee_id))
                       ELSE Response("register", 400, "Registration failed", None),
                       pruned, hwm)
                 EXCEPT !.event_attendees = row.regs]}

RegisterAttendee(id, attendee_id) == \E o \in RegisterOutcomes(id, attendee_id) : Apply(o)

\* create requests with every capacity, for events of the longest duration
RegCreate == \E id \in Ids, d \in ConcDates, c \in RegCapacities :
                CreateEvent(id, Isoformat(d), c, MaxDuration, "organizer")

\* update requests that carry a capacity alone
RegUpdate == \E id \in Ids, c \in RegCapacities :
                UpdateEvent(id, FALSE, None, Some(c), None, TRUE)

Register == \E id \in Ids, a \in AttendeeIds : RegisterAttendee(id, a)

NextRegister == RegCreate \/ RegUpdate \/ Register \/ Delete

\* the event and registration requests
SpecRegister == Init /\ [][NextRegister]_vars

\* C15: after a successful delete of an event no interval of the index, no
\* queue entry, no persisted schedule row and no registration refers to it,
\* and its interval is released: schedule_event, called in the state the
\* delete leaves for a new event whose interval intersects no interval of
\* the other events, schedules that event without conflict.
DeleteCascades ==
    \A id \in Ids :
        \A o \in DeleteOutcomes(id, TRUE) :
            o.resp.status = 200 =>
                /\ \A iv \in o.intervals : iv.data # id
                /\ \A e \in QueueEntries(o.event_queue) : e[2] # id
                /\ id \notin DOMAIN o.schedule
                /\ \A reg \in o.event_attendees : reg[1] # id
                /\ id \notin DOMAIN o.events
                /\ \A new \in Ids \ DOMAIN o.events, d \in Dates, h \in 1..MaxDuration :
                      ~Intersects(Others(id), Timestamp(d), Timestamp(d + h))
                      => \A n \in ScheduleOutcomes(OutSched(o),
                                                   AddEvent(o.events, new, d, 1, h), new, d, h) :
                            /\ n.err = ""
                            /\ Interval(Timestamp(d), Timestamp(d + h), new) \in n.st.intervals

\* an event that was scheduled has been deleted: the other event, whose
\* create was refused for the conflict with it, keeps its record and its
\* registration and can now be scheduled
DeleteCascadesWitness ==
    /\ resp.op = "delete" /\ resp.status = 200
    /\ intervals = {} /\ event_queue = <<>> /\ schedule = EmptyTable
    /\ \E id \in DOMAIN events :
          /\ \E reg \in event_attendees : reg[1] = id
          /\ \A reg \in event_attendees : reg[1] = id
          /\ \A o \in UpdateOutcomes(id, FALSE, events[id].date, None, None, TRUE) :
                o.resp.status = 200

\* C16: after every completed create, update, delete or get_next_event
\* request, and after a restart, the (event_id, start, end) triples of the
\* interval index are exactly the rows of the schedule table, every queue
\* entry (start, event_id) has its triple in the index, and no event id
\* occurs twice in the index or twice in the queue (the table is keyed by
\* event_id).
CacheConsistent ==
    /\ {<<iv.data, iv.begin, iv.end>> : iv \in intervals}
          = {<<id, schedule[id][1], schedule[id][2]>> : id \in DOMAIN schedule}
    /\ \A e \in QueueEntries(event_queue) :
          \E iv \in intervals : iv.data = e[2] /\ iv.begin = Timestamp(e[1])
    /\ \A a, b \in intervals : a.data = b.data => a = b
    /\ \A i, j \in 1..Len(event_queue) :
          event_queue[i][2] = event_queue[j][2] => i = j

\* two events are scheduled, the queue has lost the entry of one of them to
\* get_next_event, and the last request rescheduled an event
CacheConsistentWitness ==
    /\ resp.op = "update" /\ resp.status = 200
    /\ Cardinality(intervals) = 2 /\ Cardinality(DOMAIN schedule) = 2
    /\ Len(event_queue) = 1
    /\ pruned # {}

\* C17: whenever schedule_event reports a conflict, in a create or in an
\* update of any date and duration handled after any sequence of create,
\* update, delete and get_next_event requests over three events, the event
\* it names holds an interval of the index
\* that intersects the requested interval, and its record is found in the
\* events table: the call never fails on an empty slice (StopIteration) or on
\* a missing record (TypeError).
ConflictNamesHolder ==
    /\ \A id \in ThreeIds, r \in CreateInputs :
          CreateSchedules(id, r) =>
              \A o \in CreateOf(id, r) :
                  (o.resp.status = 500 /\ o.resp.detail # "NullInterval") =>
                      /\ o.resp.detail = "Conflict"
                      /\ \E iv \in intervals :
                            /\ o.resp.data = Some(iv.data)
                            /\ Meets(iv, CreateStart(r), CreateEnd(r))
                            /\ iv.data \in DOMAIN events
    /\ \A id \in ThreeIds, r \in UpdateInputs :
          UpdateReschedules(id, r) =>
              \A o \in UpdateOf(id, r) :
                  (o.resp.status = 500 /\ o.resp.detail # "NullInterval") =>
                      /\ o.resp.detail = "Conflict"
                      /\ \E iv \in Others(id) :
                            /\ o.resp.data = Some(iv.data)
                            /\ Meets(iv, UpdateStart(id, r), UpdateEnd(id, r))
                            /\ iv.data \in DOMAIN events
    /\ resp.detail \notin {"TypeError", "StopIteration"}

\* a reschedule was refused for a conflict with an event that holds its
\* interval and its record but whose queue entry get_next_event has popped
ConflictNamesHolderWitness ==
    /\ resp.op = "update" /\ resp.status = 500 /\ resp.detail = "Conflict"
    /\ \E iv \in intervals :
          /\ resp.data = Some(iv.data)
          /\ iv.data \in DOMAIN events
          /\ \A e \in QueueEntries(event_queue) : e[2] # iv.data

\* capacities the handlers refuse
NonPositive == {0, 0 - 1}

\* the request was refused for its capacity and nothing was written
RefusedForCapacity(o) ==
    /\ o.resp.status = 400 /\ o.resp.detail = "Capacity must be positive"
    /\ o.events = events /\ OutSched(o) = Sched
    /\ o.event_attendees = event_attendees

\* C18 as stated: every create and every update request that carries a
\* capacity <= 0 is rejected with 'Capacity must be positive' and writes
\* nothing, and every persisted event has a capacity > 0.
CapacityRejected ==
    /\ \A id \in Ids, c \in NonPositive, date \in DateInputs, h \in Durations :
          \A o \in CreateOutcomes(id, date, c, h, "organizer") : RefusedForCapacity(o)
    /\ \A id \in Ids, c \in NonPositive, r \in UpdateInputs :
          \A o \in UpdateOutcomes(id, r.other, r.date, Some(c), r.duration_hours, TRUE) :
              RefusedForCapacity(o)
    /\ \A id \in DOMAIN events : events[id].capacity > 0

\* C18 amended: a create request of an organizer, and an update request of a
\* permitted user for an event that exists, that carries a capacity <= 0 is
\* rejected with 'Capacity must be positive' and writes nothing, whatever
\* else it carries; an update request for an id without event record is
\* rejected with 'Event not found' and writes nothing; and every persisted
\* event has a capacity > 0.
CapacityRejectedExisting ==
    /\ \A id \in Ids, c \in NonPositive, date \in DateInputs \cup {BadDate}, h \in Durations :
          \A o \in CreateOutcomes(id, date, c, h, "organizer") : RefusedForCapacity(o)
    /\ \A id \in Ids, c \in NonPositive, r \in UpdateInputs :
          \A o \in UpdateOutcomes(id, r.other, r.date, Some(c), r.duration_hours, TRUE) :
              IF id \in DOMAIN events THEN RefusedForCapacity(o)
              ELSE /\ o.resp.status = 404
                   /\ o.events = events /\ OutSched(o) = Sched
    /\ \A id \in DOMAIN events : events[id].capacity > 0

\* an update of an existing event that carried a capacity of 0 was refused
\* while an event is scheduled
CapacityRejectedWitness ==
    /\ resp.op = "update" /\ resp.status = 400
    /\ resp.detail = "Capacity must be positive"
    /\ DOMAIN schedule # {}

\* C19 as stated: a registration for an existing event succeeds and adds
\* exactly that registration when the event has fewer registrations than its
\* capacity and the attendee is not registered for it, and otherwise adds
\* none; and in every state reached by create, update, register and delete
\* requests no event has more registrations than its capacity.
RegistrationWithinCapacity ==
    /\ \A id \in DOMAIN events, a \in AttendeeIds :
          \A o \in RegisterOutcomes(id, a) :
              IF /\ AttendeeCount(event_attendees, id) < events[id].capacity
                 /\ <<id, a>> \notin event_attendees
              THEN /\ o.resp.status = 200
                   /\ o.event_attendees = event_attendees \cup {<<id, a>>}
              ELSE /\ o.resp.status = 400
                   /\ o.event_attendees = event_attendees
    /\ \A id \in DOMAIN events :
          AttendeeCount(event_attendees, id) <= events[id].capacity

\* ------------------------------------------------------- startup
\* the rows schedule_event writes: start and end of a non-empty interval
LoadRows == {<<Timestamp(d), Timestamp(d + h)>> : d \in Dates, h \in 1..MaxDuration}

\* the event record a schedule row was written for
RecordOf(row) ==
    [date |-> Isoformat(FromTimestamp(row[1])), capacity |-> 1,
     duration_hours |-> FromTimestamp(row[2]) - FromTimestamp(row[1])]

\* no process runs yet; the database file holds a schedule table with any
\* rows, overlapping rows included (concurrent requests and other processes
\* over the same file can have written them)
InitLoad ==
    /\ \E S \in SUBSET ThreeIds :
          \E rows \in [S -> LoadRows] :
              /\ schedule = rows
              /\ events = [id \in S |-> RecordOf(rows[id])]
    /\ intervals = {}
    /\ event_queue = <<>>
    /\ resp = Response("offline", 0, "", None)
    /\ pruned = {}
    /\ hwm = 0
    /\ event_attendees = {}
    /\ task = [t \in Threads |-> Idle]

\* GET /scheduler/next, served once a process runs
LoadGetNext == resp.op # "offline" /\ GetNext

NextLoad == Restart \/ LoadGetNext

\* a process is started, serves get_next_event and is restarted
SpecLoad == InitLoad /\ [][NextLoad]_vars

\* C20: immediately after a Scheduler is constructed the interval index
\* holds, for every persisted schedule row, exactly the interval [start_ts,
\* end_ts) tagged with the row's event_id, and nothing else, and the queue
\* holds exactly one entry (start, event_id) per row, in the order of the
\* starts; rows that overlap each other are loaded like any others.
StartupRecovery ==
    LET st == LoadSchedule(schedule)
        Loaded(tree, q) ==
            /\ \A id \in DOMAIN schedule :
                  {iv \in tree : iv.data = id}
                      = {[begin |-> schedule[id][1], end |-> schedule[id][2], data |-> id]}
            /\ \A iv \in tree : iv.data \in DOMAIN schedule
            /\ Len(q) = Cardinality(DOMAIN schedule)
            /\ \A id \in DOMAIN schedule :
                  \E i \in 1..Len(q) : q[i] = <<FromTimestamp(schedule[id][1]), id>>
            /\ \A i, j \in 1..Len(q) : i < j => q[i][1] <= q[j][1]
    IN  /\ Loaded(st.intervals, st.event_queue)
        /\ st.schedule = schedule
        /\ resp.op = "start" => Loaded(intervals, event_queue)

\* a process was started over a table with three rows of which two overlap
\* and one starts at 0: the index holds three intervals and the queue three
\* entries
StartupRecoveryWitness ==
    /\ resp.op = "start"
    /\ Cardinality(intervals) = 3 /\ Len(event_queue) = 3
    /\ \E a, b \in DOMAIN schedule :
          a # b /\ schedule[a][1] < schedule[b][2] /\ schedule[b][1] < schedule[a][2]
    /\ \E a \in DOMAIN schedule : schedule[a][1] = 0

\* ------------------------------------------------------- scheduler view
\* id holds an entry in o: an interval, a queue entry or a persisted row
HoldsEntry(o, id) ==
    \/ \E iv \in o.intervals : iv.data = id
    \/ \E e \in QueueEntries(o.event_queue) : e[2] = id
    \/ id \in DOMAIN o.schedule

\* every entry id holds in o starts at the date of id's record in o and ends
\* at that date plus the record's duration
EntryMatchesRecord(o, id) ==
    LET start == ParseDate(o.events[id].date)
        end == start + o.events[id].duration_hours
    IN  /\ \A iv \in o.intervals :
              iv.data = id => iv = Interval(Timestamp(start), Timestamp(end), id)
        /\ \A e \in QueueEntries(o.event_queue) : e[2] = id => e[1] = start
        /\ id \in DOMAIN o.schedule
              => o.schedule[id] = <<Timestamp(start), Timestamp(end)>>

\* the entries of o are those of its records
ViewCurrent(o) ==
    \A e \in Ids : HoldsEntry(o, e) => e \in DOMAIN o.events /\ EntryMatchesRecord(o, e)

\* C21: after every completed create or update request, whatever its
\* response, each event that holds a schedule entry (interval, queue entry
\* or persisted row) has a record, the entry starts at the record's date and
\* ends at that date plus the record's duration.
SchedulerViewCurrent ==
    \A id \in Ids :
        /\ \A r \in CreateInputs : \A o \in CreateOf(id, r) : ViewCurrent(o)
        /\ \A r \in UpdateInputs : \A o \in UpdateOf(id, r) : ViewCurrent(o)

\* an update moved an event and changed its duration: its entry is the one
\* of the new record, next to the entry of another event
SchedulerViewCurrentWitness ==
    /\ resp.op = "update" /\ resp.status = 200
    /\ Cardinality(DOMAIN schedule) = 2
    /\ \E id \in DOMAIN schedule :
          /\ events[id].date = Isoformat(2) /\ events[id].duration_hours = 2
          /\ ScheduledIn(Outcome(events, Sched, resp, pruned, hwm), id, 2, 4)

\* ------------------------------------------------------- reschedule
\* the interval id holds in the index and in the persisted table
OwnSlot(id) ==
    /\ id \in DOMAIN schedule
    /\ Interval(schedule[id][1], schedule[id][2], id) \in intervals

\* C22: an update of a scheduled event that changes start or duration to an
\* interval that intersects the event's own old interval and the interval of
\* no other event succeeds, and leaves the event with exactly one interval,
\* one queue entry and one persisted row, all with the new timing.
RescheduleOverOwnSlot ==
    \A id \in Ids, r \in UpdateInputs :
        (/\ UpdateReschedules(id, r)
         /\ OwnSlot(id)
         /\ Meets(Interval(schedule[id][1], schedule[id][2], id),
                  UpdateStart(id, r), UpdateEnd(id, r))
         /\ ~Intersects(Others(id), UpdateStart(id, r), UpdateEnd(id, r)))
        => \A o \in UpdateOf(id, r) :
              /\ o.resp.status = 200
              /\ {iv \in o.intervals : iv.data = id}
                    = {Interval(UpdateStart(id, r), UpdateEnd(id, r), id)}
              /\ {e \in QueueEntries(o.event_queue) : e[2] = id}
                    = {<<ParseDate(UpdatedRow(id, r).date), id>>}
              /\ Len(SelectSeq(o.event_queue, LAMBDA e : e[2] = id)) = 1
              /\ id \in DOMAIN o.schedule
              /\ o.schedule[id] = <<UpdateStart(id, r), UpdateEnd(id, r)>>
              /\ {iv \in o.intervals : iv.data # id} = Others(id)

\* A holds [0, 2) next to another scheduled event, and the update of A's
\* date to 1 leaves A holding [1, 3), which shares [1, 2) with its old slot
RescheduleOverOwnSlotWitness ==
    /\ OwnSlot("A") /\ schedule["A"] = <<Timestamp(0), Timestamp(2)>>
    /\ Others("A") # {}
    /\ \E o \in UpdateOutcomes("A", FALSE, Isoformat(1), None, None, TRUE) :
          /\ o.resp.status = 200
          /\ ScheduledIn(o, "A", 1, 3)
          /\ ~ScheduledIn(o, "A", 0, 2)

\* the request carries neither a date nor a duration: at most a title, type
\* or instructor (other) and a capacity
CarriesNoTiming(r) == r.date = None /\ r.duration_hours = None

\* the slot of id's record is free in the index
RecordSlotFree(id) ==
    /\ events[id].duration_hours > 0
    /\ ~Intersects(intervals, Timestamp(ParseDate(events[id].date)),
            Timestamp(ParseDate(events[id].date) + events[id].duration_hours))

AllIdle == \A t \in Threads : At(t, "idle")

\* POST /events handled while no other request is in progress
QuietCreate == AllIdle /\ ConcCreate

\* PUT /events/{id} is picked up by the first worker thread, DELETE
\* /events/{id} by the second
ConcBeginUpdate == \E id \in Ids, d \in ConcDates : BeginUpdate(1, id, d)

RaceBeginDelete == \E id \in Ids : BeginDelete(2, id)

ConcGetEvent == \E t \in Threads : StepGetEvent(t)

ConcDbUpdate == \E t \in Threads : StepDbUpdate(t)

ConcReload == \E t \in Threads : StepReload(t)

ConcRespond == \E t \in Threads : StepRespond(t)

NextUpdateDelete ==
    \/ QuietCreate
    \/ ConcBeginUpdate \/ ConcGetEvent \/ ConcDbUpdate \/ ConcReload \/ ConcRespond
    \/ RaceBeginDelete \/ ConcDbDelete
    \/ ConcRemoveIntervals \/ ConcRemoveQueue \/ ConcRemoveSchedule
    \/ ConcOverlaps \/ ConcConflict \/ ConcInsert \/ ConcHeappush \/ ConcAddSchedule

\* update and delete requests handled by two threads, one statement at a
\* time, over events created while the server was quiet
SpecUpdateDelete == Init /\ [][NextUpdateDelete]_vars

\* C24 as stated: whenever no request is in progress, no interval, queue
\* entry or persisted schedule row refers to an event that has no record,
\* however the statements of update and delete requests were interleaved.
NoEntryWithoutRecord ==
    AllIdle => \A id \in Ids : id \notin DOMAIN events => Unscheduled(id)

\* ------------------------------------------------------- zero duration
\* C25 as stated: a create request with duration 0 whose start lies inside
\* no stored interval succeeds and leaves the event with exactly one entry
\* [start, start) in the index, the queue and the persisted table; no
\* outcome leaves the record stored without a schedule entry.
ZeroDurationSchedulable ==
    \A id \in Ids, r \in CreateInputs :
        (/\ CreateSchedules(id, r)
         /\ r.duration_hours = 0
         /\ ~OverlapsPoint(intervals, CreateStart(r)))
        => \A o \in CreateOf(id, r) :
              /\ o.resp.status = 201
              /\ ScheduledIn(o, id, ParseDate(r.date), ParseDate(r.date))
              /\ id \in DOMAIN o.events => HoldsEntry(o, id)

\* ------------------------------------------------------- get_next_event
\* C26: when the last request handled was GET /scheduler/next at clock value
\* now, a second call at the same now returns the same entry with the same
\* response, and leaves the queue, the index, the persisted rows and the
\* events as the first call left them.
NextIdempotent ==
    (resp.op = "next" /\ resp.now # None) =>
        LET now == resp.now[1]
            again == GetNextOutcome(now)
        IN  /\ NextResult(event_queue, now) = resp.data
            /\ again.resp = resp
            /\ again.event_queue = event_queue
            /\ OutSched(again) = Sched
            /\ again.events = events

\* a call popped every entry before now = 2, two of them, and returned the
\* entry that was left
NextIdempotentWitness ==
    /\ resp.op = "next" /\ resp.now = Some(2) /\ hwm = 2
    /\ resp.data # None
    /\ Cardinality(pruned) = 2
    /\ \A e \in pruned : e[1] < 2 /\ Interval(Timestamp(e[1]), Timestamp(e[1] + 1), e[2]) \in intervals

\* the intervals of the events whose queue entry get_next_event has popped
PrunedSlots ==
    {iv \in intervals : \E e \in pruned : e[2] = iv.data /\ Timestamp(e[1]) = iv.begin}

\* C27: get_next_event leaves the interval index, the persisted schedule
\* rows and the events as they were; an event whose queue entry it popped
\* keeps its interval and its row; and a create or update request whose
\* interval intersects the interval of such an event is refused with the
\* conflict error and schedules nothing.
NextChangesOnlyQueue ==
    /\ \A now \in Nows :
          /\ GetNextOutcome(now).intervals = intervals
          /\ GetNextOutcome(now).schedule = schedule
          /\ GetNextOutcome(now).events = events
    /\ \A e \in pruned :
          /\ \E iv \in PrunedSlots : iv.data = e[2]
          /\ e[2] \in DOMAIN schedule /\ schedule[e[2]][1] = Timestamp(e[1])
    /\ \A id \in Ids, r \in CreateInputs :
          (CreateSchedules(id, r) /\ Intersects(PrunedSlots, CreateStart(r), CreateEnd(r)))
          => \A o \in CreateOf(id, r) :
                /\ o.resp.status = 500 /\ o.resp.detail = "Conflict"
                /\ OutSched(o) = Sched
    /\ \A id \in Ids, r \in UpdateInputs :
          (/\ UpdateReschedules(id, r)
           /\ Intersects(PrunedSlots \cap Others(id), UpdateStart(id, r), UpdateEnd(id, r)))
          => \A o \in UpdateOf(id, r) :
                /\ o.resp.status = 500 /\ o.resp.detail = "Conflict"
                /\ \A iv \in o.intervals : iv.data # id

\* a create request was refused for a conflict with an event that has left
\* the queue as past and is the only event in the index
NextChangesOnlyQueueWitness ==
    /\ resp.op = "create" /\ resp.status = 500 /\ resp.detail = "Conflict"
    /\ event_queue = <<>>
    /\ \E e \in pruned :
          /\ resp.data = Some(e[2])
          /\ PrunedSlots = intervals /\ Cardinality(intervals) = 1

====
